---- MODULE Spec2Model ----
(***************************************************************************)
(* runqlen (libbpf-tools/runqlen.c): the sampling session of main(), the   *)
(* per-processor attach loop, the two report functions that copy and zero  *)
(* the rows of bss->hists, the SIGINT handler and the teardown.            *)
(*                                                                         *)
(* The program counter pc names the statement of main() about to run.      *)
(* The sampler (the BPF program do_sample) is not part of runqlen.c; it is *)
(* modelled from the specification: one instance per processor, each       *)
(* incrementing a bucket of its own row with a plain load/add/store.       *)
(***************************************************************************)
EXTENDS Integers, Sequences, FiniteSets, TLC

\* Bounds. MAX_CPU_NR and MAX_SLOTS come from runqlen.h and are scaled down.
MAX_CPU_NR == 2
MAX_SLOTS == 2
MaxTimes == 2
MaxSamples == 2

MaxTicks == MaxTimes

Cpus == 0 .. (MAX_CPU_NR - 1)
Slots == 0 .. (MAX_SLOTS - 1)

\* static struct hist zero;
zero == [s \in Slots |-> 0]

\* Exit status of a process killed by SIGSEGV, as a shell reports it.
SEGV == 128 + 11

VARIABLES
  pc,          \* statement of main() about to execute
  err,         \* int err
  exit_code,   \* process exit status, -1 while running
  obj,         \* "none", "open", "loaded", "destroyed"
  nr_cpus,     \* static int nr_cpus
  linksAlloc,  \* links != NULL
  links,       \* links[i]: "null", "attached" or "err"
  i,           \* loop index (attach loop, report loop, cleanup loop)
  exiting,     \* static volatile bool exiting
  handler,     \* SIGINT disposition is sig_handler
  per_cpu,     \* env.per_cpu
  runqocc,     \* env.runqocc
  timestamp,   \* env.timestamp
  times,       \* env.times
  hists,       \* bss->hists
  hist,        \* local struct hist of the report function
  idle,        \* local idle of print_runq_occupancy
  queued,      \* local queued of print_runq_occupancy
  out,         \* output blocks of the tick in progress
  samp,        \* per processor: the sampler's increment in flight, if any
  \* history variables
  times0,      \* the configured sample-count budget
  fail,        \* which step failed: "none", "memlock", "open", "ncpus", "alloc", "load", "attach"
  failedAt,    \* processor on which attachment failed, -1 if none
  detach,      \* per processor: number of releases of its attached link
  objDestroys, \* number of runqlen_bpf__destroy calls
  ticks,       \* report ticks begun
  stopTicks,   \* report ticks begun after exiting was set
  drained,     \* rows copied and zeroed in the tick in progress
  tickSum,     \* bucket-wise sum of all rows when the tick's first row was copied
  taken,       \* per processor: samples the sampler has stored
  reported,    \* per processor: sample count printed for its row so far
  winStores,   \* per processor: sampler stores between a copy of its row and the zeroing
  quota        \* number of samples the sampler may take in this behaviour

vars == << pc, err, exit_code, obj, nr_cpus, linksAlloc, links, i, exiting,
           handler, per_cpu, runqocc, timestamp, times, hists, hist, idle,
           queued, out, samp, times0, fail, failedAt, detach, objDestroys,
           ticks, stopTicks, drained, tickSum, taken, reported, winStores, quota >>

cfgVars == << per_cpu, runqocc, timestamp, times0, quota >>
mainVars == << pc, err, exit_code, obj, nr_cpus, linksAlloc, links, i, handler,
               times, hist, idle, queued, out, fail, failedAt, detach,
               objDestroys, ticks, stopTicks, drained, tickSum, reported >>
reportVars == << hist, idle, queued, out, drained, tickSum, reported >>
setupVars == << obj, nr_cpus, linksAlloc, links, handler, fail, failedAt,
                detach, objDestroys >>
loopVars == << times, ticks, stopTicks >>
sampVars == << samp, taken, winStores >>

----------------------------------------------------------------------------
\* Helpers

Max(x, y) == IF x > y THEN x ELSE y

RECURSIVE SumFrom(_, _)
\* sum of h[slot] for slot in from .. MAX_SLOTS-1
SumFrom(h, from) ==
  IF from >= MAX_SLOTS THEN 0 ELSE h[from] + SumFrom(h, from + 1)

\* the slot loop of print_runq_occupancy: slot 0 goes to idle, the rest to queued
AccumIdle(h, idle0) == idle0 + h[0]
AccumQueued(h, queued0) == queued0 + SumFrom(h, 1)

\* 100 * (queued * 1.0 / max(1ULL, samples)) as "%.2f" prints it: hundredths
\* of a percent, rounded to nearest
RunqoccMut(q, samples) ==
  LET m == Max(1, samples - q) IN (20000 * q + m) \div (2 * m)
Runqocc(q, samples) ==
  LET m == Max(1, samples) IN (20000 * q + m) \div (2 * m)

RECURSIVE SumRows(_, _, _, _)
\* sum of bucket k over rows from .. n-1 of table t
SumRows(t, k, from, n) ==
  IF from >= n THEN 0 ELSE t[from][k] + SumRows(t, k, from + 1, n)

RECURSIVE SumOver(_, _)
\* sum of f[c] for c in from .. MAX_CPU_NR-1
SumOver(f, from) ==
  IF from >= MAX_CPU_NR THEN 0 ELSE f[from] + SumOver(f, from + 1)

Total(h) == SumFrom(h, 0)

\* return err != 0;
ExitStatus(e) == IF e # 0 THEN 1 ELSE 0

\* links[i] = NULL; on a failed bpf_program__attach_perf_event
FailedLinkMut == "err"
FailedLink == "null"

\* the sampler of processor c runs while its perf event link is attached
Sampling(c) == links[c] = "attached" /\ detach[c] = 0

----------------------------------------------------------------------------
\* The state at the entry of main(), after argp_parse: env holds the
\* command line, everything else is zero. tsSet is the set of values of
\* env.timestamp considered, budgets the set of values of env.times, q the
\* number of samples the sampler may take.
InitWith(tsSet, budgets, q) ==
  /\ pc = "memlock"
  /\ err = 0
  /\ exit_code = -1
  /\ obj = "none"
  /\ nr_cpus = 0
  /\ linksAlloc = FALSE
  /\ links = [c \in Cpus |-> "null"]
  /\ i = 0
  /\ exiting = FALSE
  /\ handler = FALSE
  /\ per_cpu \in BOOLEAN
  /\ runqocc \in BOOLEAN
  /\ timestamp \in tsSet
  /\ times0 \in budgets
  /\ times = times0
  /\ hists = [c \in Cpus |-> zero]
  /\ hist = zero
  /\ idle = 0
  /\ queued = 0
  /\ out = << >>
  /\ samp = [c \in Cpus |-> [busy |-> FALSE, slot |-> 0, val |-> 0]]
  /\ fail = "none"
  /\ failedAt = -1
  /\ detach = [c \in Cpus |-> 0]
  /\ objDestroys = 0
  /\ ticks = 0
  /\ stopTicks = 0
  /\ drained = {}
  /\ tickSum = zero
  /\ taken = [c \in Cpus |-> 0]
  /\ reported = [c \in Cpus |-> 0]
  /\ winStores = [c \in Cpus |-> 0]
  /\ quota = q

\* Sessions without -T, with a count of 1 .. MaxTimes and up to MaxSamples
\* samples.
Init == InitWith({FALSE}, 1 .. MaxTimes, MaxSamples)

\* Sessions with and without -T, with a count of 0 .. MaxTimes and a single
\* sample.
SessionInit == InitWith(BOOLEAN, 0 .. MaxTimes, 1)

\* return 1; from main() before the cleanup label
Return1(why) ==
  /\ pc' = "done"
  /\ exit_code' = 1
  /\ fail' = why

\* err = bump_memlock_rlimit(); if (err) return 1;
BumpMemlock ==
  /\ pc = "memlock"
  /\ \E e \in {0, -1} :
       /\ err' = e
       /\ IF e # 0
            THEN Return1("memlock")
            ELSE pc' = "open" /\ UNCHANGED << exit_code, fail >>
  /\ UNCHANGED << obj, nr_cpus, linksAlloc, links, i, exiting, handler,
                  failedAt, detach, objDestroys >>
  /\ UNCHANGED << cfgVars, loopVars, reportVars, sampVars, hists >>

\* obj = runqlen_bpf__open(); if (!obj) return 1;
Open ==
  /\ pc = "open"
  /\ \E ok \in BOOLEAN :
       IF ok
         THEN obj' = "open" /\ pc' = "ncpus" /\ UNCHANGED << exit_code, fail >>
         ELSE Return1("open") /\ UNCHANGED obj
  /\ UNCHANGED << err, nr_cpus, linksAlloc, links, i, exiting, handler,
                  failedAt, detach, objDestroys >>
  /\ UNCHANGED << cfgVars, loopVars, reportVars, sampVars, hists >>

\* nr_cpus = libbpf_num_possible_cpus(); if (nr_cpus > MAX_CPU_NR) return 1;
NumCpus ==
  /\ pc = "ncpus"
  /\ \E n \in 1 .. (MAX_CPU_NR + 1) :
       /\ nr_cpus' = n
       /\ IF n > MAX_CPU_NR
            THEN Return1("ncpus")
            ELSE pc' = "alloc" /\ UNCHANGED << exit_code, fail >>
  /\ UNCHANGED << err, obj, linksAlloc, links, i, exiting, handler,
                  failedAt, detach, objDestroys >>
  /\ UNCHANGED << cfgVars, loopVars, reportVars, sampVars, hists >>

\* links = calloc(nr_cpus, sizeof(*links)); if (!links) goto cleanup;
Alloc ==
  /\ pc = "alloc"
  /\ \E ok \in BOOLEAN :
       IF ok
         THEN linksAlloc' = TRUE /\ pc' = "load" /\ UNCHANGED << fail, i >>
         ELSE /\ pc' = "cleanup"
              /\ i' = 0
              /\ fail' = "alloc"
              /\ UNCHANGED linksAlloc
  /\ UNCHANGED << err, exit_code, obj, nr_cpus, links, exiting, handler,
                  failedAt, detach, objDestroys >>
  /\ UNCHANGED << cfgVars, loopVars, reportVars, sampVars, hists >>

\* err = runqlen_bpf__load(obj); if (err) goto cleanup;
Load ==
  /\ pc = "load"
  /\ \E e \in {0, -1} :
       /\ err' = e
       /\ IF e # 0
            THEN pc' = "cleanup" /\ fail' = "load" /\ UNCHANGED obj
            ELSE pc' = "attach" /\ obj' = "loaded" /\ UNCHANGED fail
  /\ i' = 0
  /\ UNCHANGED << exit_code, nr_cpus, linksAlloc, links, exiting, handler,
                  failedAt, detach, objDestroys >>
  /\ UNCHANGED << cfgVars, loopVars, reportVars, sampVars, hists >>

\* for (...; i < nr_cpus; i++) of open_and_attach_perf_event: after the
\* iteration for idx, is there another one
AttachMoreMut(idx, n) == idx + 2 < n
AttachMore(idx, n) == idx + 1 < n

\* One iteration of the loop of open_and_attach_perf_event, and main()'s
\* "if (open_and_attach_perf_event(...)) goto cleanup;" when it returns.
\* r = "nofd": perf_event_open fails, links[i] keeps calloc's NULL.
\* r = "nolink": bpf_program__attach_perf_event fails, links[i] = NULL.
Attach ==
  /\ pc = "attach"
  /\ i < nr_cpus
  /\ \E r \in {"ok", "nofd", "nolink"} :
       IF r = "ok"
         THEN /\ links' = [links EXCEPT ![i] = "attached"]
              /\ i' = IF AttachMore(i, nr_cpus) THEN i + 1 ELSE 0
              /\ pc' = IF AttachMore(i, nr_cpus) THEN "attach" ELSE "install"
              /\ UNCHANGED << fail, failedAt >>
         ELSE /\ links' = IF r = "nolink"
                            THEN [links EXCEPT ![i] = FailedLink]
                            ELSE links
              /\ fail' = "attach"
              /\ failedAt' = i
              /\ i' = 0
              /\ pc' = "cleanup"
  /\ UNCHANGED << err, exit_code, obj, nr_cpus, linksAlloc, exiting, handler,
                  detach, objDestroys >>
  /\ UNCHANGED << cfgVars, loopVars, reportVars, sampVars, hists >>

\* printf("Sampling run queue length..."); signal(SIGINT, sig_handler);
Install ==
  /\ pc = "install"
  /\ handler' = TRUE
  /\ pc' = "sleep"
  /\ UNCHANGED << err, exit_code, obj, nr_cpus, linksAlloc, links, i, exiting,
                  fail, failedAt, detach, objDestroys >>
  /\ UNCHANGED << cfgVars, loopVars, reportVars, sampVars, hists >>

----------------------------------------------------------------------------
\* The session loop: while (1) { sleep; stamp; report; check }

\* One block of output: a timestamp line, an occupancy line or a histogram.
\* cpu is -1 when the block carries no processor number.
Block(kind, cpu, pct, slots) ==
  [kind |-> kind, cpu |-> cpu, pct |-> pct, slots |-> slots]

\* if (env.timestamp) { ...; printf("%-8s\n", ts); }: the output of a tick
\* before its report
StampOutMut(ts) == << Block("ts", -1, -1, zero) >>
StampOut(ts) == IF ts THEN << Block("ts", -1, -1, zero) >> ELSE << >>

\* sleep(env.interval); printf("\n");
\* if (env.timestamp) { ... printf("%-8s\n", ts); }
\* and the call of the report function, which initialises its locals:
\* i = 0, idle = 0, queued = 0.
\* The interval elapses, or the sleep is cut short by a signal. The number of
\* ticks begun before a stop request, and the number begun after one, are
\* each bounded by MaxTicks.
Sleep ==
  /\ pc = "sleep"
  /\ IF exiting THEN stopTicks < MaxTicks ELSE ticks < MaxTicks
  /\ ticks' = ticks + 1
  /\ stopTicks' = IF exiting THEN stopTicks + 1 ELSE stopTicks
  /\ out' = StampOut(timestamp)
  /\ drained' = {}
  /\ i' = 0
  /\ idle' = 0
  /\ queued' = 0
  /\ pc' = "copy"
  /\ UNCHANGED << err, exit_code, exiting, times, hist, tickSum, reported,
                  hists >>
  /\ UNCHANGED << cfgVars, setupVars, sampVars >>

\* hist = bss->hists[i];
Copy ==
  /\ pc = "copy"
  /\ hist' = hists[i]
  /\ drained' = drained \cup {i}
  /\ tickSum' = IF i = 0
                  THEN [k \in Slots |-> SumRows(hists, k, 0, nr_cpus)]
                  ELSE tickSum
  /\ pc' = "zero"
  /\ UNCHANGED << err, exit_code, i, exiting, idle, queued, out, reported,
                  hists >>
  /\ UNCHANGED << cfgVars, setupVars, loopVars, sampVars >>

\* the table after bss->hists[r] = zero;
ZeroRowMut(t, r) == [c \in Cpus |-> zero]
ZeroRow(t, r) == [t EXCEPT ![r] = zero]

\* } while (env.per_cpu && ++i < nr_cpus);
LoopAgainMut(percpu, idx, n) == idx + 1 < n
LoopAgain(percpu, idx, n) == percpu /\ idx + 1 < n

\* bss->hists[i] = zero; and the rest of the loop body, which touches only
\* locals and the output: the slot loop and the printf of
\* print_runq_occupancy, or printf "cpu = %d" and print_linear_hist of
\* print_linear_hists; then the loop condition.
Zero ==
  /\ pc = "zero"
  /\ hists' = ZeroRow(hists, i)
  /\ IF runqocc
       THEN /\ idle' = AccumIdle(hist, idle)
            /\ queued' = AccumQueued(hist, queued)
            /\ out' = Append(out, Block("occ", IF per_cpu THEN i ELSE -1,
                                        Runqocc(queued', idle' + queued'),
                                        zero))
       ELSE /\ out' = Append(out, Block("hist", IF per_cpu THEN i ELSE -1,
                                        -1, hist))
            /\ UNCHANGED << idle, queued >>
  /\ reported' = [reported EXCEPT ![i] = @ + Total(hist)]
  /\ IF LoopAgain(per_cpu, i, nr_cpus)
       THEN i' = i + 1 /\ pc' = "copy"
       ELSE i' = i /\ pc' = "check"
  /\ UNCHANGED << err, exit_code, exiting, hist, drained, tickSum >>
  /\ UNCHANGED << cfgVars, setupVars, loopVars, sampVars >>

\* env.times after "exiting || --env.times == 0": the decrement is skipped
\* when exiting is set
NextTimesMut(ex, t) == t
NextTimes(ex, t) == IF ex THEN t ELSE t - 1

\* if (exiting || --env.times == 0) break;
BreakLoopMut(ex, t) == NextTimes(FALSE, t) = 0
BreakLoop(ex, t) == ex \/ NextTimes(ex, t) = 0

\* The loop test after the report. The report function has returned, so
\* its locals are dead; the tick's output is complete.
Check ==
  /\ pc = "check"
  /\ times' = NextTimes(exiting, times)
  /\ IF BreakLoop(exiting, times)
       THEN pc' = "cleanup" /\ i' = 0
       ELSE pc' = "sleep" /\ i' = 0
  /\ hist' = zero
  /\ idle' = 0
  /\ queued' = 0
  /\ out' = << >>
  /\ drained' = {}
  /\ tickSum' = zero
  /\ UNCHANGED << err, exit_code, exiting, ticks, stopTicks, reported, hists >>
  /\ UNCHANGED << cfgVars, setupVars, sampVars >>

----------------------------------------------------------------------------
\* cleanup:

\* for (i = 0; i < nr_cpus; i++): the entries the cleanup loop visits
CleanupRangeMut(n) == 1 .. (n - 1)
CleanupRange(n) == 0 .. (n - 1)

\* for (i = 0; i < nr_cpus; i++) bpf_link__destroy(links[i]);
\* bpf_link__destroy releases an attached link and ignores a null or error
\* pointer. With links == NULL the read of links[i] is undefined: the
\* process is killed by SIGSEGV, or the reads yield values that
\* bpf_link__destroy ignores.
Cleanup ==
  /\ pc = "cleanup"
  /\ IF ~linksAlloc /\ nr_cpus > 0
       THEN \E crash \in BOOLEAN :
              IF crash
                THEN pc' = "done" /\ exit_code' = SEGV /\ UNCHANGED i
                ELSE pc' = "teardown" /\ i' = nr_cpus /\ UNCHANGED exit_code
       ELSE /\ pc' = "teardown"
            /\ i' = nr_cpus
            /\ UNCHANGED exit_code
  /\ detach' = [c \in Cpus |->
                  IF c \in CleanupRange(nr_cpus) /\ linksAlloc
                     /\ links[c] = "attached"
                    THEN detach[c] + 1
                    ELSE detach[c]]
  /\ UNCHANGED << err, obj, nr_cpus, linksAlloc, links, exiting, handler,
                  fail, failedAt, objDestroys, hists >>
  /\ UNCHANGED << cfgVars, loopVars, reportVars, sampVars >>

\* free(links); runqlen_bpf__destroy(obj); return err != 0;
Teardown ==
  /\ pc = "teardown"
  /\ linksAlloc' = FALSE
  /\ obj' = "destroyed"
  /\ objDestroys' = objDestroys + 1
  /\ exit_code' = ExitStatus(err)
  /\ pc' = "done"
  /\ UNCHANGED << err, nr_cpus, links, i, exiting, handler, fail, failedAt,
                  detach, hists >>
  /\ UNCHANGED << cfgVars, loopVars, reportVars, sampVars >>

----------------------------------------------------------------------------
\* SIGINT once sig_handler is installed

\* The statement main() resumes at when sig_handler returns: the one it
\* was interrupted at.
ResumeAtMut(p) == IF p \in {"copy", "zero"} THEN "cleanup" ELSE p
ResumeAt(p) == p

\* static void sig_handler(int sig) { exiting = true; }
SigInt ==
  /\ handler
  /\ pc # "done"
  /\ ~exiting
  /\ exiting' = TRUE
  /\ pc' = ResumeAt(pc)
  /\ UNCHANGED << err, exit_code, i, hists >>
  /\ UNCHANGED << cfgVars, setupVars, loopVars, reportVars, sampVars >>

----------------------------------------------------------------------------
\* The sampler on processor c: hists[c].slots[slot]++ without atomics, as
\* a load followed by a store.

InFlight == Cardinality({c \in Cpus : samp[c].busy})

SamplerLoad(c) ==
  /\ Sampling(c)
  /\ ~samp[c].busy
  /\ SumOver(taken, 0) + InFlight < quota
  /\ \E s \in Slots :
       samp' = [samp EXCEPT ![c] = [busy |-> TRUE, slot |-> s,
                                    val |-> hists[c][s]]]
  /\ UNCHANGED << taken, winStores, exiting, hists >>
  /\ UNCHANGED << cfgVars, mainVars >>

SamplerStore(c) ==
  /\ samp[c].busy
  /\ hists' = [hists EXCEPT ![c][samp[c].slot] = samp[c].val + 1]
  /\ taken' = [taken EXCEPT ![c] = @ + 1]
  /\ winStores' = IF pc = "zero" /\ i = c
                    THEN [winStores EXCEPT ![c] = @ + 1]
                    ELSE winStores
  /\ samp' = [samp EXCEPT ![c] = [busy |-> FALSE, slot |-> 0, val |-> 0]]
  /\ UNCHANGED << exiting >>
  /\ UNCHANGED << cfgVars, mainVars >>

----------------------------------------------------------------------------
Main ==
  \/ BumpMemlock
  \/ Open
  \/ NumCpus
  \/ Alloc
  \/ Load
  \/ Attach
  \/ Install
  \/ Sleep
  \/ Copy
  \/ Zero
  \/ Check
  \/ Cleanup
  \/ Teardown

Next ==
  \/ Main
  \/ SigInt
  \/ \E c \in Cpus : SamplerLoad(c)
  \/ \E c \in Cpus : SamplerStore(c)

Spec == Init /\ [][Next]_vars

SessionSpec == SessionInit /\ [][Next]_vars

\* main() is a running thread: it always takes its next step, and the
\* sleep always ends.
FairSpec == SessionSpec /\ WF_vars(Main)

----------------------------------------------------------------------------
\* Properties

\* the processors a report covers
Covered == IF per_cpu THEN 0 .. (nr_cpus - 1) ELSE {0}

SetupFailures == {"memlock", "open", "ncpus", "alloc", "load"}

\* samples taken on processor c that are neither reported nor still in its row
Lost(c) == taken[c] - reported[c] - Total(hists[c])

LastBlock == out[Len(out)]

\* C1: if attaching the sampler fails on any processor (no timer event, or
\* no link), the session exits with a non-zero exit status.
C1_AttachFailureExitsNonZero ==
  (pc = "done" /\ fail = "attach") => exit_code # 0

\* C2: in per-processor occupancy mode the percentage printed for processor
\* i is computed from the drained copy of row i alone: 100 * (buckets 1..B-1
\* of the row) / max(1, all buckets of the row).
C2_PerCpuOccupancyFromOwnRow ==
  (/\ runqocc
   /\ per_cpu
   /\ pc \in {"copy", "check"}
   /\ Len(out) > 0
   /\ LastBlock.kind = "occ")
  => LastBlock.pct = Runqocc(SumFrom(hist, 1), Total(hist))

\* C3: in aggregate mode the histogram reported on a tick is, bucket by
\* bucket, the sum over all N rows as they stood when the tick drained the
\* table, and the aggregate occupancy is computed from those sums.
C3_AggregateIsSumOfRows ==
  (pc = "check" /\ ~per_cpu)
  => IF runqocc
       THEN LastBlock.pct = Runqocc(SumFrom(tickSum, 1), Total(tickSum))
       ELSE LastBlock.slots = tickSum

\* C4: every report tick reads and resets the row of every processor
\* 0..N-1, in aggregate and in per-processor mode, in both renderings.
C4_EveryRowDrained ==
  pc = "check" => drained = 0 .. (nr_cpus - 1)

\* C5: with a sample-count budget k >= 1 and no cancellation, the loop
\* performs exactly k report ticks, then detaches every processor and exits
\* with status 0; it never begins more than k ticks.
C5_BudgetGivesExactlyKTicks ==
  /\ times0 >= 1 => ticks <= times0
  /\ (times0 >= 1 /\ ~exiting /\ pc = "sleep") => ticks < times0
  /\ (pc = "done" /\ fail = "none" /\ ~exiting /\ times0 >= 1)
     => /\ ticks = times0
        /\ exit_code = 0
        /\ \A c \in 0 .. (nr_cpus - 1) : detach[c] = 1

C5_Witness ==
  /\ pc = "done"
  /\ fail = "none"
  /\ ~exiting
  /\ times0 = 2
  /\ ticks = 2
  /\ exit_code = 0

\* C6: every setup failure before sampling begins (memlock limit, object
\* open, too many processors, allocation of the link table, program load)
\* makes the process exit with status 1, with no sampler attached and no
\* report tick executed.
C6_SetupFailureExitsOne ==
  (pc = "done" /\ fail \in SetupFailures)
  => /\ exit_code = 1
     /\ ticks = 0
     /\ \A c \in Cpus : links[c] # "attached"

\* C7: when attachment fails on processor j, no report tick ever executes,
\* every processor 0..j-1 is detached exactly once before the process
\* exits, and the entries of j..N-1 are null at teardown.
C7_AttachFailureTeardown ==
  fail = "attach"
  => /\ ticks = 0
     /\ \A c \in Cpus : detach[c] <= 1
     /\ \A c \in failedAt .. (nr_cpus - 1) : links[c] = "null" /\ detach[c] = 0
     /\ pc = "teardown" => \A c \in 0 .. (failedAt - 1) : detach[c] = 1
     /\ pc = "done" => \A c \in 0 .. (failedAt - 1) : detach[c] = 1

C7_Witness ==
  /\ pc = "done"
  /\ fail = "attach"
  /\ failedAt = 1
  /\ detach[0] = 1
  /\ links[1] = "null"

C9_CancelNeverInterruptsReport ==
  [][ /\ (exiting' # exiting)
         => (exiting' /\ UNCHANGED << cfgVars, mainVars, sampVars, hists >>)
      /\ (pc \in {"copy", "zero"}) => (pc' \in {"copy", "zero", "check"})
      /\ (pc' = "check" /\ pc # "check")
         => (/\ drained' = Covered'
             /\ Len(out') = Cardinality(Covered') + (IF timestamp THEN 1 ELSE 0))
      /\ (detach' # detach) => (pc = "cleanup")
      /\ (pc' \in {"cleanup", "teardown"}) => (pc \notin {"copy", "zero"})
    ]_vars

\* a stop request arrived while a two-processor report was in flight, and
\* the report went on to cover both processors
C9_Witness ==
  /\ exiting
  /\ stopTicks = 0
  /\ pc = "check"
  /\ per_cpu
  /\ nr_cpus = 2
  /\ drained = {0, 1}

AllDetached == \A c \in 0 .. (nr_cpus - 1) : detach[c] = 1

\* C10: once the stop request has set the flag, at most one further report
\* tick begins, and the session eventually detaches every processor and
\* exits with status 0, wherever the request arrived.
C10_StopTerminatesWithinOneTick ==
  /\ [](stopTicks <= 1)
  /\ exiting ~> (pc = "done" /\ exit_code = 0 /\ AllDetached)

C10_Witness ==
  /\ exiting
  /\ stopTicks = 1
  /\ pc = "done"
  /\ exit_code = 0
  /\ AllDetached

\* C11: teardown releases every attached per-processor link exactly once
\* and skips null entries, on every path that reaches it (budget
\* exhausted, cancellation, attach failure, load failure); no link is
\* released twice and none that was attached is left unreleased at exit.
C11_DetachAllExactlyOnce ==
  /\ \A c \in Cpus : detach[c] <= 1
  /\ \A c \in Cpus : detach[c] = 1 => links[c] = "attached"
  /\ (pc \in {"teardown", "done"})
     => \A c \in Cpus : links[c] = "attached" => detach[c] = 1

\* attachment failed on processor 1 of 2: link 0 was released once, the
\* null entry 1 was skipped
C11_Witness ==
  /\ pc = "done"
  /\ nr_cpus = 2
  /\ failedAt = 1
  /\ links[0] = "attached"
  /\ detach[0] = 1
  /\ links[1] = "null"
  /\ detach[1] = 0

\* the output blocks of the tick in progress that are not the timestamp
Blocks == SelectSeq(out, LAMBDA b : b.kind # "ts")

\* C12: each tick emits exactly N blocks, for processors 0..N-1 in index
\* order, in per-processor mode, and exactly one block in aggregate mode
\* whatever N is, in the occupancy and in the histogram rendering.
C12_BlocksPerTick ==
  pc = "check"
  => /\ Len(Blocks) = IF per_cpu THEN nr_cpus ELSE 1
     /\ \A k \in 1 .. Len(Blocks) :
          /\ Blocks[k].cpu = IF per_cpu THEN k - 1 ELSE -1
          /\ Blocks[k].kind = IF runqocc THEN "occ" ELSE "hist"

C12_Witness ==
  /\ pc = "check"
  /\ ~per_cpu
  /\ nr_cpus = 2
  /\ Len(Blocks) = 1

\* C13: every occupancy percentage printed is in [0, 100]; it is 0 when
\* all counted samples are in bucket 0, and 0 when the counted total is 0.
C13_OccupancyInRange ==
  /\ \A k \in 1 .. Len(out) :
       out[k].kind = "occ" => (out[k].pct >= 0 /\ out[k].pct <= 10000)
  /\ (pc \in {"copy", "check"} /\ Len(out) > 0 /\ LastBlock.kind = "occ")
     => /\ queued = 0 => LastBlock.pct = 0
        /\ idle + queued = 0 => LastBlock.pct = 0
        /\ (idle = 0 /\ queued > 0) => LastBlock.pct = 10000

\* a line printed from two counted samples, both in bucket 1
C13_Witness ==
  /\ pc = "check"
  /\ LastBlock.kind = "occ"
  /\ idle = 0
  /\ queued = 2
  /\ LastBlock.pct = 10000

\* C14: the race between sampler increments and the copy-then-zero only
\* under-counts: the total reported for a processor over all ticks never
\* exceeds the number of samples taken on it.
C14_NeverOverReported ==
  \A c \in Cpus : reported[c] <= taken[c]

\* the statement of main() that may run after p
PcAfter(p) ==
  CASE p = "memlock" -> {"open", "done"}
    [] p = "open" -> {"ncpus", "done"}
    [] p = "ncpus" -> {"alloc", "done"}
    [] p = "alloc" -> {"load", "cleanup"}
    [] p = "load" -> {"attach", "cleanup"}
    [] p = "attach" -> {"attach", "install", "cleanup"}
    [] p = "install" -> {"sleep"}
    [] p = "sleep" -> {"copy"}
    [] p = "copy" -> {"zero"}
    [] p = "zero" -> {"copy", "check"}
    [] p = "check" -> {"sleep", "cleanup"}
    [] p = "cleanup" -> {"teardown", "done"}
    [] p = "teardown" -> {"done"}
    [] OTHER -> {}

Reporting == pc \in {"copy", "zero", "check"}

\* C15: the session follows Idle -> Attaching -> Sampling -> Reporting ->
\* (Sampling | Terminating): no report starts before attachment succeeded on
\* all N processors, every report tick begins at the end of one sleep,
\* sleep and report never overlap, and no link is released before the last
\* report has completed.
C15_SessionOrder ==
  /\ [](Reporting => /\ fail = "none"
                     /\ \A c \in 0 .. (nr_cpus - 1) : Sampling(c))
  /\ []((\E c \in Cpus : detach[c] > 0) => pc \in {"teardown", "done"})
  /\ [][ /\ (pc' # pc) => (pc' \in PcAfter(pc))
         /\ (ticks' # ticks)
            => (pc = "sleep" /\ pc' = "copy" /\ ticks' = ticks + 1)
         /\ (pc # "copy" /\ pc' = "copy" /\ i' = 0) => (ticks' = ticks + 1)
       ]_vars

C15_Witness ==
  /\ pc = "check"
  /\ ticks = 2
  /\ nr_cpus = 2
  /\ \A c \in Cpus : Sampling(c)

\* C16: for every configured budget k >= 0 the remaining-sample counter is
\* never negative, and the loop stops at the first loop test at which no
\* reports remain.
C16_BudgetNeverNegative ==
  /\ times >= 0
  /\ (pc = "sleep" /\ ticks > 0) => times > 0

\* C17: teardown never reads an entry of the link table when the table
\* was not allocated: the cleanup loop runs no iteration on the
\* allocation-failure path.
C17_NoReadOfAbsentTable ==
  [][ (pc = "cleanup" /\ pc' # "cleanup" /\ CleanupRange(nr_cpus) # {})
      => linksAlloc ]_vars

\* C18: on every exit path taken after the object was opened, including
\* the exit for too many processors, the object is destroyed exactly once
\* before the process exits.
C18_ObjectDestroyedOnce ==
  /\ objDestroys <= 1
  /\ (pc = "done" /\ obj # "none") => (objDestroys = 1 /\ obj = "destroyed")

\* C19: with the timestamp flag set every tick emits exactly one timestamp
\* line, before any histogram or occupancy output of the tick and before
\* any row is drained; without the flag no tick emits a timestamp.
C19_TimestampFirst ==
  Reporting
  => /\ \A k \in 2 .. Len(out) : out[k].kind # "ts"
     /\ timestamp => (Len(out) >= 1 /\ out[1].kind = "ts")
     /\ ~timestamp => \A k \in 1 .. Len(out) : out[k].kind # "ts"

\* the timestamp is out and no row of the tick has been drained yet
C19_Witness ==
  /\ timestamp
  /\ pc = "copy"
  /\ drained = {}
  /\ ticks = 2
  /\ out = << Block("ts", -1, -1, zero) >>

====
